---- MODULE Spec2Model ----
(***************************************************************************)
(* mu-parser: the combinator engine (parser.ts, parser-state.ts,           *)
(* parser-result.ts, parser-error.ts, utils.ts, parsers/parsers.ts) as an  *)
(* abstract machine.  A parser is a syntax tree; running it is a sequence  *)
(* of steps over a control register (ctl) and a stack of the JavaScript    *)
(* activations that are waiting for an inner parser to return or throw.    *)
(***************************************************************************)
EXTENDS Integers, Sequences, FiniteSets, TLC

VARIABLES
    heap,          \* the input graph: object identity -> object or array
    root,          \* params.input
    prog,          \* the parser handed to runParser
    ctl,           \* what the machine does next: run / ret / throw / builder / done
    stack,         \* pending activations, innermost last
    outcome,       \* what runParser returned or threw
    onErrorCalls,  \* how many times onError was invoked
    raised,        \* history: the last exception raised: err, the parser that
                   \* raised it (by), the state st it was
                   \* raised in, the descents (at) and values (chain) from the root
                   \* to there, the segment a refused descent was about to add,
                   \* and whether a recover activation was pending (guarded)
    recovery,      \* history: the last alternative started by recover
    passed,        \* history: the last result a recover activation let through
    called,        \* history: the last call of an andThen callback
    first,         \* history: what the first of two invocations of runParser
                   \* with the same arguments gave
    finished,      \* history: the last combine block that returned
    aborted,       \* history: the last activation an exception left without
                   \* being caught there, the exception as it came in (err) and
                   \* as it went on (out)
    message        \* the message of the Error runParser threw for want of onError

vars ==
    <<heap, root, prog, ctl, stack, outcome, onErrorCalls, raised, recovery, passed,
      called, first, finished, aborted, message>>

----------------------------------------------------------------------------
(* Bounds of the model *)

\* longest array of a generated input
MaxLen == 2
\* activations the call stack holds before the engine gives up (RangeError)
MaxDepth == 12

----------------------------------------------------------------------------
(* JavaScript values.  Objects and arrays are references (identity);       *)
(* primitives are compared by value.                                       *)

Str(s) == <<"str", s>>
Num(n) == <<"num", n>>
Ref(r) == <<"ref", r>>
NULL == <<"null", 0>>
UNDEFINED == <<"undefined", 0>>
ABSENT == <<"absent", 0>>
\* a value built by a parser: the array of a list, the record of a builder
Arr(items) == <<"array", items>>
Rec(items) == <<"record", items>>

\* path segments: a property name or an array index (0-based)
Key(name) == <<"key", name>>
Idx(i) == <<"idx", i>>

Refs == {1, 2, 3, 4}
\* the symbol key of parser.spec.ts: const symField = Symbol("symField")
SymField == "@@symField"
Names ==
    {"value", "next", "a", "b", "c", "foo",
     "a/b", "m~n", "~1", "a~b~c", "x/y/z", SymField, "toString"}

\* String(name) of a property key
KeyString(name) == IF name = SymField THEN "Symbol(symField)" ELSE name

NoFields == [n \in Names |-> ABSENT]
Obj(fields) == [type |-> "obj", fields |-> fields, items |-> <<>>]
Array(items) == [type |-> "arr", fields |-> NoFields, items |-> items]
EmptyObj == Obj(NoFields)

\* typeof target === "object" && target !== null
IsObject(v) == v[1] = "ref"
\* target instanceof Array
IsArray(v) == v[1] = "ref" /\ heap[v[2]].type = "arr"
\* the keys every object and array inherits from Object.prototype, and the
\* function found under such a key
ObjectPrototype == {"toString"}
Builtin(name) == <<"function", name>>
\* Object.hasOwn(record, name)
HasOwn(v, name) == heap[v[2]].fields[name] # ABSENT
\* name in record: own keys and those of the prototype chain
HasField(v, name) == HasOwn(v, name) \/ name \in ObjectPrototype
\* record[name]
GetField(v, name) ==
    IF HasOwn(v, name) THEN heap[v[2]].fields[name]
    ELSE IF name \in ObjectPrototype THEN Builtin(name)
    ELSE ABSENT
Items(v) == heap[v[2]].items

----------------------------------------------------------------------------
(* ParserState *)

ParserState(input, path, visited, state) ==
    [input |-> input, path |-> path, visited |-> visited, state |-> state]

emptyWithRoot(input, initialState) == ParserState(input, <<>>, {input}, initialState)
\* one Set shared by all invocations instead of new Set()
emptyShared(input, initialState) == ParserState(input, <<>>, first.visited, initialState)
empty(input, initialState) == ParserState(input, <<>>, {}, initialState)

\* an updater of the auxiliary state: entries.concat(entry)
Concat(text) == <<"concat", text>>
ApplyUpdater(updater, state) == Append(state, updater[2])

\* parser.spec.ts "logger": the updater is applied, the state stays as it was
ParserState_updateStateDropped(self, updater) == self
\* ... or a state is built anew around the updated auxiliary state
ParserState_updateStateFresh(self, updater) ==
    ParserState(self.input, <<>>, {}, ApplyUpdater(updater, self.state))

ParserState_updateState(self, updater) ==
    ParserState(self.input, self.path, self.visited, ApplyUpdater(updater, self.state))

visitingInPlace(self, seg, target) ==
    ParserState(self.input, Append(self.path, seg), self.visited \cup {self.input},
                self.state)
visiting(self, seg, target) ==
    ParserState(target, Append(self.path, seg), self.visited \cup {target}, self.state)

----------------------------------------------------------------------------
(* ParserError and other exceptions *)

ParserError(reason, at) == [kind |-> "ParserError", reason |-> reason, path |-> at]
\* an exception of another class, thrown by user code
UserError == [kind |-> "TypeError", reason |-> "user code failed", path |-> <<>>]
\* the engine's call stack is exhausted
RangeError == [kind |-> "RangeError", reason |-> "Maximum call stack size exceeded", path |-> <<>>]
NoError == [kind |-> "none", reason |-> "", path |-> <<>>]

\* parser-result.ts err: throw new ParserError(reason, state.path)
err(reason, state) == ParserError(reason, state.path)

\* utils.ts recover(ParserError): e instanceof err
recoverAnything(e) == e.kind # "none"
recover(e) == e.kind = "ParserError"

----------------------------------------------------------------------------
(* Parsers as syntax trees *)

NoArg == <<"none">>
P(kind, arg, subs) == [kind |-> kind, arg |-> arg, subs |-> subs]

parseStr == P("parseStr", NoArg, <<>>)
parseNum == P("parseNum", NoArg, <<>>)
parseObj == P("parseObj", NoArg, <<>>)
parseLit(value) == P("parseLit", value, <<>>)
parseNull == parseLit(NULL)
parseField(name, fieldParser) == P("parseField", Key(name), <<fieldParser>>)
parseList(itemParser) == P("parseList", NoArg, <<itemParser>>)
input == P("input", NoArg, <<>>)
path == P("path", NoArg, <<>>)
success(val) == P("success", val, <<>>)
fail(reason) == P("fail", Str(reason), <<>>)
getState == P("getState", NoArg, <<>>)
updateState(updater) == P("updateState", updater, <<>>)
\* a leaf whose run function throws something that is no ParserError
throwing == P("throwing", NoArg, <<>>)
\* combine(builder): the binds the builder makes, in order, and what it returns
combine(binds, returns) == P("combine", <<"builder", returns>>, binds)
\* p.map(f), f named
map(p, f) == P("map", <<"f", f>>, <<p>>)
\* p.andThen(f), f = () => q
andThen(p, q) == P("andThen", <<"f", "const">>, <<p, q>>)
\* p.andThen(f), f = (a) => success(a)
andThenSuccess(p) == P("andThen", <<"f", "success">>, <<p>>)
\* p.andThen(f), f a callback that throws something else than a ParserError
andThenThrowing(p) == P("andThen", <<"f", "throws">>, <<p>>)
\* p.recover(fn), fn = (err) => log(`${err.reason} at: [${err.path.join(", ")}]`)
recoverLog(p) == P("recover", <<"fn", "log">>, <<p>>)
\* p.orElse(other) = p.recover(() => other)
orElse(p, other) == P("recover", <<"fn", "const">>, <<p, other>>)
\* p.optional = p.orElse(success(undefined))
optionalNull(p) == orElse(p, success(NULL))
optional(p) == orElse(p, success(UNDEFINED))
\* a parser constant referred to by name from inside a builder (recursion)
Lazy(name) == P("lazy", Str(name), <<>>)

----------------------------------------------------------------------------
(* The parsers of the test suite and the documentation *)

\* parser.spec.ts "recursive parsers / deep"
parseRecursive ==
    combine(<<parseField("value", parseStr),
              parseField("next", Lazy("parseRecursive"))>>, "collect")

\* docs/guide/core-concepts.md "Circular Reference Detection"
nodeParser ==
    combine(<<parseField("value", parseStr),
              optional(parseField("next", Lazy("nodeParser")))>>, "collect")

\* a list of lists of ... : recursion through array elements only
parseNested == combine(<<parseList(Lazy("parseNested"))>>, "collect")

\* recursion through a field that holds a list of nodes
parseTree ==
    combine(<<parseField("next", parseList(Lazy("parseTree")))>>, "collect")

\* parser.spec.ts "recursive parsers / same level"
parseLeaf == combine(<<parseField("foo", parseLit(Str("bar")))>>, "collect")
parseSameLevel ==
    combine(<<parseField("a", parseLeaf), parseField("b", parseLeaf)>>, "collect")

\* two sibling fields parsed by the same parser, each descending once more
parseTwins ==
    combine(<<parseField("value", parseField("next", input)),
              parseField("next", parseField("next", input))>>, "collect")

\* parser.spec.ts "parser errors": parseField("a", parseList(parseField("b", path)))
parseAListB == parseField("a", parseList(parseField("b", path)))

\* parser.spec.ts "parser combine": name, age and the list of hobbies, each
\* with a name and a type (here value, a, next, and value, b)
parseHobby ==
    combine(<<parseField("value", parseStr), parseField("b", parseStr)>>, "collect")
parsePerson ==
    combine(<<parseField("value", parseStr), parseField("a", parseNum),
              parseField("next", parseList(parseHobby))>>, "collect")

\* parser.spec.ts "user state / logger"
log(entry) == combine(<<updateState(Concat(entry))>>, "undefined")
parserStrOrLog == combine(<<recoverLog(parseStr), getState>>, "collect")

\* a parser for strings, lists and linked nodes, nested to any depth
parseAny ==
    orElse(parseStr, orElse(parseList(Lazy("parseAny")),
                            parseField("next", Lazy("parseAny"))))

Named(name) ==
    CASE name = "parseRecursive" -> parseRecursive
      [] name = "parseAny" -> parseAny
      [] name = "nodeParser" -> nodeParser
      [] name = "parseNested" -> parseNested
      [] name = "parseTree" -> parseTree

Deref(p) == IF p.kind = "lazy" THEN Named(p.arg[2]) ELSE p

----------------------------------------------------------------------------
(* The machine *)

NoParser == P("none", NoArg, <<>>)
NoState == ParserState(UNDEFINED, <<>>, {}, <<>>)
NoSeg == <<"none", 0>>

Run(p, st) == [op |-> "run", p |-> Deref(p), val |-> UNDEFINED, st |-> st, err |-> NoError]
Ret(val, st) == [op |-> "ret", p |-> NoParser, val |-> val, st |-> st, err |-> NoError]
Throw(e) == [op |-> "throw", p |-> NoParser, val |-> UNDEFINED, st |-> NoState, err |-> e]
Builder == [op |-> "builder", p |-> NoParser, val |-> UNDEFINED, st |-> NoState, err |-> NoError]
Start == [op |-> "start", p |-> NoParser, val |-> UNDEFINED, st |-> NoState, err |-> NoError]
Done == [op |-> "done", p |-> NoParser, val |-> UNDEFINED, st |-> NoState, err |-> NoError]

\* an activation waiting on the stack.  st is the state variable its closure
\* holds (ctx, st or the threaded state of a combine block); pos and res are
\* the loop index and the results so far.  entry, hist and ranOn are history:
\* the state the block was entered with, the states its binds returned, and
\* the states its binds were run against.
Frame(kind, p, st, pos, res) ==
    [kind |-> kind, p |-> p, st |-> st, pos |-> pos, res |-> res,
     entry |-> st, hist |-> <<>>, ranOn |-> <<>>]

Top == stack[Len(stack)]
Pop == SubSeq(stack, 1, Len(stack) - 1)
Push(f) == Append(stack, f)
ReplaceTop(f) == [stack EXCEPT ![Len(stack)] = f]

IsDescent(f) == f.kind \in {"parseField", "parseList"}
\* the segment a pending parseField / parseList activation descended by
SegOf(f) == IF f.kind = "parseField" THEN f.p.arg ELSE Idx(f.pos)
\* the value it descended into
TargetOf(f) ==
    IF f.kind = "parseField" THEN GetField(f.st.input, f.p.arg[2])
    ELSE Items(f.st.input)[f.pos + 1]

RECURSIVE DescentSegs(_)
DescentSegs(s) ==
    IF s = <<>> THEN <<>>
    ELSE LET rest == DescentSegs(SubSeq(s, 1, Len(s) - 1))
             f == s[Len(s)]
         IN IF IsDescent(f) THEN Append(rest, SegOf(f)) ELSE rest

\* the values from the root input down to the current focus, as the pending
\* descents give them
RECURSIVE Chain(_)
Chain(s) ==
    IF s = <<>> THEN <<root>>
    ELSE LET rest == Chain(SubSeq(s, 1, Len(s) - 1))
             f == s[Len(s)]
         IN IF IsDescent(f) THEN Append(rest, TargetOf(f)) ELSE rest

NoRaise ==
    [err |-> NoError, at |-> <<>>, st |-> NoState, seg |-> NoSeg,
     chain |-> <<>>, guarded |-> FALSE, by |-> NoParser]
NoRecovery == [set |-> FALSE, entry |-> NoState, ran |-> NoState, failed |-> NoState, err |-> NoError, n |-> 0]
NoPass == [set |-> FALSE, val |-> UNDEFINED, st |-> NoState]
NoCall == [set |-> FALSE, arg |-> UNDEFINED, from |-> NoState, on |-> NoState, entry |-> NoState]
NoFinish == [set |-> FALSE, val |-> UNDEFINED, st |-> NoState, entry |-> NoState, hist |-> <<>>, res |-> <<>>]
NoAbort == [set |-> FALSE, frame |-> Frame("none", NoParser, NoState, 0, <<>>), err |-> NoError, out |-> NoError]

\* parser-result.ts ok / parser-ops.ts parserResult
ok(val, state) == Ret(val, state)
parserResult(val, state) == ok(val, state)
parserError(reason, state) == err(reason, state)

Goto(c) == ctl' = c /\ UNCHANGED raised
RaiseBy(e, st, seg, by) ==
    /\ ctl' = Throw(e)
    /\ raised' = [err |-> e, at |-> DescentSegs(stack), st |-> st, seg |-> seg,
                  chain |-> Chain(stack),
                  guarded |-> \E i \in 1..Len(stack) : stack[i].kind = "recover",
                  by |-> by]
Raise(e, st, seg) == RaiseBy(e, st, seg, ctl.p)

Running(kind) == ctl.op = "run" /\ ctl.p.kind = kind /\ Len(stack) < MaxDepth
Returned(kind) == ctl.op = "ret" /\ stack # <<>> /\ Top.kind = kind
Leaf == UNCHANGED <<heap, root, prog, stack, outcome, onErrorCalls, recovery, finished, aborted, message, passed, called, first>>
Inner == UNCHANGED <<heap, root, prog, outcome, onErrorCalls, recovery, finished, aborted, message, passed, called, first>>

----------------------------------------------------------------------------
(* Leaf parsers: parsers.ts and parser.ts *)

RECURSIVE NatString(_)
NatString(n) ==
    LET digit == <<"0", "1", "2", "3", "4", "5", "6", "7", "8", "9">>[(n % 10) + 1]
    IN IF n < 10 THEN digit ELSE NatString(n \div 10) \o digit

\* String(value) / `${value}`
String(v) ==
    CASE v[1] = "str" -> v[2]
      [] v[1] = "num" -> NatString(v[2])
      [] v[1] = "null" -> "null"
      [] v[1] = "undefined" -> "undefined"
      [] OTHER -> "[object Object]"

ParseStr ==
    /\ Running("parseStr")
    /\ LET ctx == ctl.st
           target == ctx.input
       IN IF target[1] = "str"
          THEN Goto(parserResult(target, ctx))
          ELSE Raise(parserError("string expected", ctx), ctx, NoSeg)
    /\ Leaf

ParseLit ==
    /\ Running("parseLit")
    /\ LET ctx == ctl.st
           target == ctx.input
           value == ctl.p.arg
       IN IF target = value
          THEN Goto(parserResult(value, ctx))
          ELSE Raise(parserError("expected value " \o String(value), ctx), ctx, NoSeg)
    /\ Leaf

ParseNum ==
    /\ Running("parseNum")
    /\ LET ctx == ctl.st
           target == ctx.input
       IN IF target[1] = "num"
          THEN Goto(parserResult(target, ctx))
          ELSE Raise(parserError("number expected", ctx), ctx, NoSeg)
    /\ Leaf

ParseObj ==
    /\ Running("parseObj")
    /\ LET ctx == ctl.st
           target == ctx.input
       IN IF IsObject(target)
          THEN Goto(parserResult(target, ctx))
          ELSE Raise(parserError("object expected", ctx), ctx, NoSeg)
    /\ Leaf

Input ==
    /\ Running("input")
    /\ Goto(ok(ctl.st.input, ctl.st))
    /\ Leaf

Success ==
    /\ Running("success")
    /\ Goto(ok(ctl.p.arg, ctl.st))
    /\ Leaf

Fail ==
    /\ Running("fail")
    /\ Raise(err(ctl.p.arg[2], ctl.st), ctl.st, NoSeg)
    /\ Leaf

Path ==
    /\ Running("path")
    /\ Goto(Ret(<<"path", ctl.st.path>>, ctl.st))
    /\ Leaf

UpdateState ==
    /\ Running("updateState")
    /\ LET newCtx == ParserState_updateState(ctl.st, ctl.p.arg)
       IN Goto(ok(<<"state", newCtx.state>>, newCtx))
    /\ Leaf

GetState ==
    /\ Running("getState")
    /\ Goto(Ret(<<"state", ctl.st.state>>, ctl.st))
    /\ Leaf

\* a user-written run function that throws something else than a ParserError
Throwing ==
    /\ Running("throwing")
    /\ Raise(UserError, ctl.st, NoSeg)
    /\ Leaf

----------------------------------------------------------------------------
(* Structural parsers: parsers.ts *)

\* parsers.ts:62  return parserResult(result, ctx)
fieldResultSharedVisited(result, ctx, inner) ==
    parserResult(result, ParserState(ctx.input, ctx.path, inner.visited, ctx.state))
fieldResultInner(result, ctx, inner) == parserResult(result, inner)
fieldResultAuxKept(result, ctx, inner) ==
    parserResult(result, ParserState(ctx.input, ctx.path, ctx.visited, inner.state))
fieldResult(result, ctx, inner) == parserResult(result, ctx)

\* parsers.ts:64  return parserError(`property '${String(name)}' expected`, ctx)
propertyExpectedAtField(name, ctx) ==
    parserError("property '" \o KeyString(name) \o "' expected",
                visiting(ctx, Key(name), UNDEFINED))
propertyExpected(name, ctx) ==
    parserError("property '" \o KeyString(name) \o "' expected", ctx)

ParseField ==
    /\ Running("parseField")
    /\ LET ctx == ctl.st
           name == ctl.p.arg[2]
           fieldParser == ctl.p.subs[1]
       IN IF ~IsObject(ctx.input)
          THEN Raise(parserError("object expected", ctx), ctx, NoSeg)
               /\ UNCHANGED stack
          ELSE IF ~HasField(ctx.input, name)
          THEN Raise(propertyExpected(name, ctx), ctx, NoSeg)
               /\ UNCHANGED stack
          ELSE LET nextTarget == GetField(ctx.input, name)
               IN IF nextTarget \in ctx.visited
                  THEN Raise(parserError("circular reference detected", ctx), ctx, Key(name))
                       /\ UNCHANGED stack
                  ELSE /\ stack' = Push(Frame("parseField", ctl.p, ctx, 0, <<>>))
                       /\ Goto(Run(fieldParser, visiting(ctx, Key(name), nextTarget)))
    /\ Inner

ParseFieldReturn ==
    /\ Returned("parseField")
    /\ stack' = Pop
    /\ Goto(fieldResult(ctl.val, Top.st, ctl.st))
    /\ Inner

\* parsers.ts:75-82  return parserResult(target.reduce(...), ctx)
listResultLastItem(results, ctx, inner) == parserResult(Arr(results), inner)
listResult(results, ctx, inner) == parserResult(Arr(results), ctx)

ParseList ==
    /\ Running("parseList")
    /\ LET ctx == ctl.st
           target == ctx.input
           itemParser == ctl.p.subs[1]
       IN IF ~IsArray(target)
          THEN Raise(parserError("array expected", ctx), ctx, NoSeg)
               /\ UNCHANGED stack
          ELSE IF Items(target) = <<>>
          THEN Goto(listResult(<<>>, ctx, ctx)) /\ UNCHANGED stack
          ELSE /\ stack' = Push(Frame("parseList", ctl.p, ctx, 0, <<>>))
               /\ Goto(Run(itemParser, visiting(ctx, Idx(0), Items(target)[1])))
    /\ Inner

\* parsers.ts:78  results.push(res)
pushFront(results, res) == <<res>> \o results
push(results, res) == Append(results, res)

\* one turn of target.reduce: push the item's result, go on to the next item
ParseListItem ==
    /\ Returned("parseList")
    /\ LET f == Top
           ctx == f.st
           items == Items(ctx.input)
           results == push(f.res, ctl.val)
           idx == f.pos + 1
       IN IF idx < Len(items)
          THEN /\ stack' = ReplaceTop([f EXCEPT !.pos = idx, !.res = results])
               /\ Goto(Run(f.p.subs[1], visiting(ctx, Idx(idx), items[idx + 1])))
          ELSE /\ stack' = Pop
               /\ Goto(listResult(results, ctx, ctl.st))
    /\ Inner

----------------------------------------------------------------------------
(* Combinators: parser.ts *)

\* the callback of map, by name
ApplyMap(f, res) == IF f = "wrap" THEN Rec(<<res>>) ELSE res

\* map: const [res, newCtx] = run(ctx)
Map ==
    /\ Running("map")
    /\ stack' = Push(Frame("map", ctl.p, ctl.st, 0, <<>>))
    /\ Goto(Run(ctl.p.subs[1], ctl.st))
    /\ Inner

\* map: return ok(f(res), newCtx)
MapReturn ==
    /\ Returned("map")
    /\ stack' = Pop
    /\ IF Top.p.arg[2] = "throws"
       THEN Raise(UserError, ctl.st, NoSeg)
       ELSE Goto(ok(ApplyMap(Top.p.arg[2], ctl.val), ctl.st))
    /\ Inner

\* andThen: const [a, newSt] = run(st)
AndThen ==
    /\ Running("andThen")
    /\ stack' = Push(Frame("andThen", ctl.p, ctl.st, 0, <<>>))
    /\ Goto(Run(ctl.p.subs[1], ctl.st))
    /\ Inner

\* the parser f(a) of p.andThen(f)
Callback(p, a) == IF p.arg[2] = "success" THEN success(a) ELSE p.subs[2]

\* parser.ts:28-30  const [a, newSt] = run(st); return f(a).run(newSt)
andThenStateEntry(st, newSt) == st
andThenState(st, newSt) == newSt

\* andThen: return f(a).run(newSt)
AndThenReturn ==
    /\ Returned("andThen")
    /\ stack' = Pop
    /\ IF Top.p.arg[2] = "throws"
       THEN Raise(UserError, ctl.st, NoSeg) /\ UNCHANGED called
       ELSE /\ Goto(Run(Callback(Top.p, ctl.val), andThenState(Top.st, ctl.st)))
            /\ called' = [set |-> TRUE, arg |-> ctl.val, from |-> ctl.st,
                          on |-> ctl'.st, entry |-> Top.entry]
    /\ UNCHANGED <<heap, root, prog, outcome, onErrorCalls, recovery, finished, aborted, message, passed, first>>

\* recover: attempt(() => run(st), ...)
Recover ==
    /\ Running("recover")
    /\ stack' = Push(Frame("recover", ctl.p, ctl.st, 0, <<>>))
    /\ Goto(Run(ctl.p.subs[1], ctl.st))
    /\ Inner

\* attempt: return fn()
RecoverReturn ==
    /\ Returned("recover")
    /\ stack' = Pop
    /\ Goto(ctl)
    /\ passed' = [set |-> TRUE, val |-> ctl.val, st |-> ctl.st]
    /\ UNCHANGED <<heap, root, prog, outcome, onErrorCalls, recovery, finished, aborted, message, called, first>>

\* String(part) of a path segment
PartString(part) == IF part[1] = "idx" THEN NatString(part[2]) ELSE KeyString(part[2])

\* Array.prototype.join(separator) of a path
RECURSIVE joinWith(_, _)
joinWith(at, separator) ==
    IF at = <<>> THEN ""
    ELSE IF Len(at) = 1 THEN PartString(at[1])
    ELSE PartString(at[1]) \o separator \o joinWith(Tail(at), separator)

\* `${err.reason} at: [${err.path.join(", ")}]`
logEntry(e) == e.reason \o " at: [" \o joinWith(e.path, ", ") \o "]"

\* the parser fn(e) of p.recover(fn)
Alternative(p, e) ==
    IF p.arg[2] = "log" THEN log(logEntry(e)) ELSE p.subs[2]

\* parser.ts:36  fn(e).run(st): the state the alternative is run against;
\* failedAt is the state the failing parser had reached
alternativeStateAdvanced(st, failedAt) == failedAt
alternativeState(st, failedAt) == st

\* attempt: return recover(e) stands in the catch block, outside the try: the
\* handler is gone when the alternative runs
afterCatchGuarded(frames) == frames
afterCatch(frames) == SubSeq(frames, 1, Len(frames) - 1)

\* attempt: catch (e) { return recover(e) } with e a ParserError
RecoverCatch ==
    /\ ctl.op = "throw" /\ stack # <<>>
    /\ Top.kind = "recover" /\ recover(ctl.err)
    /\ LET st == alternativeState(Top.st, raised.st)
       IN /\ ctl' = Run(Alternative(Top.p, ctl.err), st)
          /\ recovery' = [set |-> TRUE, entry |-> Top.entry, ran |-> st,
                          failed |-> raised.st, err |-> ctl.err, n |-> recovery.n + 1]
    /\ stack' = afterCatch(stack)
    /\ UNCHANGED <<heap, root, prog, outcome, onErrorCalls, raised, finished, aborted, message, passed, called, first>>

\* parser.ts:62-66  bind: parser.run(state) is called without a handler, so
\* what it throws leaves the builder as it is
bindFailureRewrapped(e, state) == Throw(ParserError(e.reason, state.path))
bindFailure(e, state) == Throw(e)

\* an exception leaves an activation that does not catch it
Unwind ==
    /\ ctl.op = "throw" /\ stack # <<>>
    /\ ~(Top.kind = "recover" /\ recover(ctl.err))
    /\ stack' = Pop
    /\ Goto(IF Top.kind = "combine" THEN bindFailure(ctl.err, Top.entry) ELSE ctl)
    /\ aborted' = [set |-> TRUE, frame |-> Top, err |-> ctl.err, out |-> ctl'.err]
    /\ UNCHANGED <<heap, root, prog, outcome, onErrorCalls, recovery, finished, message, passed, called, first>>

\* parser.ts:64  state = nextState
threadStateForgotten(state, nextState) == state
threadState(state, nextState) == nextState

\* what the builder returns from the results of its binds
BuilderValue(returns, res) == IF returns = "collect" THEN Rec(res) ELSE UNDEFINED

\* combine: the builder is called with bind
Combine ==
    /\ Running("combine")
    /\ stack' = Push(Frame("combine", ctl.p, ctl.st, 0, <<>>))
    /\ Goto(Builder)
    /\ Inner

\* bind: parser.run(state)
CombineBind ==
    /\ ctl.op = "builder" /\ Top.kind = "combine"
    /\ Top.pos < Len(Top.p.subs)
    /\ stack' = ReplaceTop([Top EXCEPT !.ranOn = Append(@, Top.st)])
    /\ Goto(Run(Top.p.subs[Top.pos + 1], Top.st))
    /\ Inner

\* state = nextState: state is the parameter of the run function, one variable
\* for each invocation of the block
assignStateShared(frames, nextState) ==
    [i \in 1..Len(frames) |->
        IF frames[i].kind = "combine" /\ frames[i].p = frames[Len(frames)].p
        THEN [frames[i] EXCEPT !.st = threadState(@, nextState)]
        ELSE frames[i]]
assignState(frames, nextState) ==
    [frames EXCEPT ![Len(frames)].st = threadState(@, nextState)]

\* bind: const [res, nextState] = ...; state = nextState; return res
CombineBound ==
    /\ Returned("combine")
    /\ stack' = [assignState(stack, ctl.st) EXCEPT ![Len(stack)].pos = @ + 1,
                                                  ![Len(stack)].res = Append(@, ctl.val),
                                                  ![Len(stack)].hist = Append(@, ctl.st)]
    /\ Goto(Builder)
    /\ Inner

\* the builder returns (or throws): ok(parsers(bind), state)
CombineReturn ==
    /\ ctl.op = "builder" /\ Top.kind = "combine"
    /\ Top.pos = Len(Top.p.subs)
    /\ stack' = Pop
    /\ IF Top.p.arg[2] = "throws"
       THEN Raise(UserError, Top.st, NoSeg) /\ UNCHANGED finished
       ELSE /\ Goto(ok(BuilderValue(Top.p.arg[2], Top.res), Top.st))
            /\ finished' = [set |-> TRUE, val |-> BuilderValue(Top.p.arg[2], Top.res),
                            st |-> Top.st, entry |-> Top.entry, hist |-> Top.hist,
                            res |-> Top.res]
    /\ UNCHANGED <<heap, root, prog, outcome, onErrorCalls, recovery, aborted, message, passed, called, first>>

\* the call stack is exhausted: the engine throws a RangeError
StackOverflow ==
    /\ ctl.op = "run" /\ Len(stack) >= MaxDepth
    /\ RaiseBy(RangeError, ctl.st, NoSeg, NoParser)
    /\ Leaf

----------------------------------------------------------------------------
(* The default error message: utils.ts and parser.ts *)

\* a string cut into the pieces the escaping tells apart: every "~" and every
\* "/" is a piece of its own
Chunks(s) ==
    CASE s = "a/b" -> <<"a", "/", "b">>
      [] s = "m~n" -> <<"m", "~", "n">>
      [] s = "~1" -> <<"~", "1">>
      [] s = "a~b~c" -> <<"a", "~", "b", "~", "c">>
      [] s = "x/y/z" -> <<"x", "/", "y", "/", "z">>
      [] OTHER -> <<s>>

\* Array.prototype.join("")
RECURSIVE join(_)
join(chunks) == IF chunks = <<>> THEN "" ELSE Head(chunks) \o join(Tail(chunks))

\* String.prototype.replace(pattern, replacement) with a string pattern:
\* the first occurrence only
RECURSIVE replace(_, _, _)
replace(chunks, pattern, replacement) ==
    IF chunks = <<>> THEN <<>>
    ELSE IF Head(chunks) = pattern THEN <<replacement>> \o Tail(chunks)
    ELSE <<Head(chunks)>> \o replace(Tail(chunks), pattern, replacement)

\* utils.ts:30  String(part).replace("~", "~0").replace("/", "~1")
escaped(part) == replace(replace(Chunks(PartString(part)), "~", "~0"), "/", "~1")
toJsonPointerRefToken(part) == "/" \o join(escaped(part))

\* path.map(toJsonPointerRefToken).join("")
RECURSIVE prettyPath(_)
prettyPath(at) ==
    IF at = <<>> THEN ""
    ELSE toJsonPointerRefToken(Head(at)) \o prettyPath(Tail(at))

\* `${reason} at path "${prettyPath}"`
errorMessage(reason, at) == reason \o " at path \"" \o prettyPath(at) \o "\""

----------------------------------------------------------------------------
(* runParser *)

NoOutcome == [kind |-> "none", val |-> UNDEFINED, err |-> NoError]

\* parser.ts:105-107  ({ reason, path }) => ... onError({ reason, path })
onErrorArgumentPathless(e) == [reason |-> e.reason, path |-> <<>>]
onErrorArgument(e) == [reason |-> e.reason, path |-> e.path]
\* the handler of the tests: (error) => [error.reason, error.path]
errorToPair(error) == Rec(<<Str(error.reason), <<"path", error.path>>>>)

\* parser.run(ParserState.empty(input, initialState))
RunParser ==
    /\ ctl.op = "start"
    /\ ctl' = Run(prog, empty(root, <<>>))
    /\ UNCHANGED <<heap, root, prog, stack, outcome, onErrorCalls, raised, recovery, finished, aborted, message, passed, called, first>>

\* ...[0]
RunParserReturn ==
    /\ ctl.op = "ret" /\ stack = <<>>
    /\ outcome' = [kind |-> "returned", val |-> ctl.val, err |-> NoError]
    /\ ctl' = Done
    /\ UNCHANGED <<heap, root, prog, stack, onErrorCalls, raised, recovery, finished, aborted, message, passed, called, first>>

\* ParserError.recover(({reason, path}) => ...), with or without onError
RunParserCatch ==
    /\ ctl.op = "throw" /\ stack = <<>>
    /\ \E onError \in BOOLEAN :
         IF recover(ctl.err)
         THEN IF onError
              THEN /\ outcome' = [kind |-> "handled",
                                  val |-> errorToPair(onErrorArgument(ctl.err)),
                                  err |-> ctl.err]
                   /\ onErrorCalls' = onErrorCalls + 1
                   /\ UNCHANGED message
              ELSE /\ outcome' = [kind |-> "thrown", val |-> UNDEFINED,
                                  err |-> [kind |-> "Error", reason |-> ctl.err.reason,
                                           path |-> ctl.err.path]]
                   /\ message' = errorMessage(ctl.err.reason, ctl.err.path)
                   /\ UNCHANGED onErrorCalls
         ELSE /\ outcome' = [kind |-> "thrown", val |-> UNDEFINED, err |-> ctl.err]
              /\ UNCHANGED <<onErrorCalls, message>>
    /\ ctl' = Done
    /\ UNCHANGED <<heap, root, prog, stack, raised, recovery, finished, aborted, passed, called, first>>

NoFirst == [set |-> FALSE, outcome |-> NoOutcome, message |-> "", visited |-> {}]

----------------------------------------------------------------------------
(* Inputs *)

\* generated graphs: two nodes, each an object with the fields value and next
\* or an array of at most MaxLen items, over these values
GenVals == {Ref(1), Ref(2), Str("root")}
GenObjs ==
    {Obj([n \in Names |-> IF n = "value" THEN v ELSE IF n = "next" THEN w ELSE ABSENT]) :
        v \in GenVals \cup {ABSENT}, w \in GenVals \cup {ABSENT}}
GenArrs == {Array(items) : items \in UNION {[1..k -> GenVals] : k \in 0..MaxLen}}
GenNodes == GenObjs \cup GenArrs

Mentions(node, v) ==
    \/ \E n \in Names : node.fields[n] = v
    \/ \E i \in 1..Len(node.items) : node.items[i] = v

\* node 2 matters only when node 1 refers to it
GenHeaps ==
    UNION {{[r \in Refs |-> IF r = 1 THEN n1 ELSE IF r = 2 THEN n2 ELSE EmptyObj] :
               n2 \in {n \in GenNodes : Mentions(n1, Ref(2)) \/ n = EmptyObj}} :
           n1 \in GenNodes}

Fields(a, b, c, foo) ==
    Obj([n \in Names |-> CASE n = "a" -> a [] n = "b" -> b [] n = "c" -> c
                           [] n = "foo" -> foo [] OTHER -> ABSENT])

\* parser.spec.ts "same level": root = {a: leaf, b: leaf}, leaf = {foo: "bar"}
SameLevelHeap ==
    [r \in Refs |-> CASE r = 1 -> Fields(Ref(2), Ref(2), ABSENT, ABSENT)
                      [] r = 2 -> Fields(ABSENT, ABSENT, ABSENT, Str("bar"))
                      [] OTHER -> EmptyObj]

\* parser.spec.ts "parser errors": {a: [{b: 1}, {c: 2}]}
AListBHeap ==
    [r \in Refs |-> CASE r = 1 -> Fields(Ref(2), ABSENT, ABSENT, ABSENT)
                      [] r = 2 -> Array(<<Ref(3), Ref(4)>>)
                      [] r = 3 -> Fields(ABSENT, Num(1), ABSENT, ABSENT)
                      [] r = 4 -> Fields(ABSENT, ABSENT, Num(2), ABSENT)]

\* an array holding the same leaf twice
TwinItemsHeap ==
    [r \in Refs |-> CASE r = 1 -> Array(<<Ref(2), Ref(2)>>)
                      [] r = 2 -> Fields(ABSENT, ABSENT, ABSENT, Str("bar"))
                      [] OTHER -> EmptyObj]

\* parser.spec.ts "parser combine":
\* {name: "Bob", age: 25, hobbies: [{name: "Reading", type: "Leisure"}, ...]}
PersonHeap ==
    [r \in Refs |->
        CASE r = 1 -> Obj([n \in Names |-> CASE n = "value" -> Str("Bob") [] n = "a" -> Num(25)
                                            [] n = "next" -> Ref(2) [] OTHER -> ABSENT])
          [] r = 2 -> Array(<<Ref(3), Ref(4)>>)
          [] r = 3 -> Obj([n \in Names |-> CASE n = "value" -> Str("Reading")
                                            [] n = "b" -> Str("Leisure") [] OTHER -> ABSENT])
          [] r = 4 -> Obj([n \in Names |-> CASE n = "value" -> Str("Gaming")
                                            [] n = "b" -> Str("Fun") [] OTHER -> ABSENT])]

\* an object whose keys need escaping in a JSON Pointer, and a symbol key
EscapeHeap ==
    [r \in Refs |->
        CASE r = 1 -> Obj([n \in Names |->
                            CASE n = "a/b" -> Ref(2)
                              [] n \in {"m~n", "~1", "a~b~c", "x/y/z", SymField} -> Str("a")
                              [] OTHER -> ABSENT])
          [] r = 2 -> Obj([n \in Names |-> IF n = "x/y/z" THEN Str("a") ELSE ABSENT])
          [] OTHER -> EmptyObj]

NoHeap == [r \in Refs |-> EmptyObj]

In(h, r) == [heap |-> h, root |-> r]

Inputs ==
    {In(h, Ref(1)) : h \in GenHeaps \cup {SameLevelHeap, AListBHeap, TwinItemsHeap, EscapeHeap,
                                          PersonHeap}}
    \cup {In(NoHeap, v) : v \in {Num(42), Str("hello"), NULL}}

----------------------------------------------------------------------------
(* Programs *)

mark(text) == updateState(Concat(text))
\* an alternative that shows the state it is run against
observe == combine(<<getState, path, input>>, "collect")

\* blocks whose first bind succeeds (and may advance the state) before the
\* second one fails
Blocks ==
    {combine(<<b1, b2>>, "collect") :
        b1 \in {mark("x"), parseField("value", parseStr), success(NULL)},
        b2 \in {fail("boom"), parseStr, parseField("next", parseNum)}}

RecoverPrograms ==
    {orElse(p, observe) : p \in Blocks}
    \cup {parseField("next", orElse(p, observe)) : p \in Blocks}
    \cup {combine(<<recoverLog(p), getState>>, "collect") : p \in Blocks}
    \cup {parseField("next", combine(<<recoverLog(parseField("next", parseNum)), getState>>,
                                     "collect"))}
    \cup {parseList(optional(p)) : p \in Blocks}

\* user code that throws something else than a ParserError
Faulty ==
    {throwing, map(input, "throws"), combine(<<input>>, "throws"),
     andThen(input, throwing), andThenThrowing(input),
     parseField("next", throwing), parseList(throwing)}

ThrowPrograms ==
    Faulty
    \cup {optional(p) : p \in Faulty}
    \cup {recoverLog(p) : p \in Faulty}
    \cup {orElse(parseStr, p) : p \in Faulty}
    \cup {combine(<<orElse(p, observe), mark("x")>>, "collect") : p \in Faulty}

CombinePrograms ==
    {combine(<<>>, "collect"),
     combine(<<mark("x"), getState, mark("y"), getState>>, "collect"),
     combine(<<parseField("next", combine(<<mark("x"), getState>>, "collect")),
               getState, mark("y")>>, "collect"),
     combine(<<combine(<<mark("x")>>, "undefined"), optional(parseStr),
               combine(<<mark("y"), getState>>, "collect")>>, "collect"),
     combine(<<mark("x"), parseField("value", parseStr), mark("y"), getState>>, "collect"),
     andThen(mark("x"), getState),
     andThen(parseField("value", parseStr), parseField("next", input)),
     map(parseStr, "wrap"),
     parseList(combine(<<mark("x"), getState>>, "collect"))}

StructuralPrograms ==
    {parseStr, parseNum, parseNull, parseObj, parseLit(Str("root")),
     parseRecursive, nodeParser, parseNested, parseTree, parseAny,
     parseSameLevel, parseTwins, parseAListB, parserStrOrLog, parsePerson,
     parseList(parseLeaf),
     parseField("next", parseField("value", parseStr)),
     parseField("next", parseField("next", parseField("next", path))),
     parseList(parseStr), parseList(input), parseList(path),
     parseList(parseList(parseNum)),
     parseList(parseField("value", parseStr)),
     parseField("next", parseList(parseField("value", parseNum))),
     parseField("a", parseList(parseNum))}

\* an optional parser between a bind that advances the state and one that
\* shows the state, below a descent; the optional parser fails by a shape
\* mismatch, a missing member, a literal mismatch, a circular reference or
\* fail(), or succeeds
Optionals ==
    {combine(<<mark("x"), parseStr>>, "collect"),
     combine(<<parseField("value", parseStr), parseField("next", parseNum)>>, "collect"),
     combine(<<mark("x"), parseField("value", parseLit(Str("root")))>>, "collect"),
     parseRecursive,
     fail("boom")}
OptionalPrograms ==
    {parseField("next", combine(<<mark("m"), optional(p), observe>>, "collect")) :
        p \in Optionals}

\* p.andThen(f) below a descent: p advances the state and then succeeds or
\* fails; f gives a parser that shows the state it is run against, or the
\* value it was called with
AndThenPrograms ==
    {parseField("next", andThen(combine(<<mark("x"), b2>>, "collect"), observe)) :
        b2 \in {fail("boom"), parseStr, parseField("next", parseNum)}}
    \cup {andThenSuccess(parseField("value", parseStr))}

\* fields whose names need escaping, and the symbol field of parser.spec.ts
KeyPrograms ==
    {parseField(n, parseNum) : n \in {"m~n", "~1", "a~b~c", "x/y/z", SymField}}
    \cup {parseField("a/b", parseField("x/y/z", parseNum))}
    \cup {parseField("toString", input), parseField("next", parseField("toString", input))}

\* p.orElse(q) with a q that can fail too, at the root and below a descent
RetryPrograms ==
    {orElse(p, q) : p \in {parseStr, parseField("value", parseStr)},
                    q \in {parseNum, fail("alt"), parseField("next", parseNum)}}
    \cup {parseField("next", orElse(parseStr, parseNum))}

Programs ==
    RetryPrograms \cup StructuralPrograms \cup RecoverPrograms \cup ThrowPrograms \cup CombinePrograms
    \cup KeyPrograms \cup OptionalPrograms \cup AndThenPrograms

\* the parsers that are handed to runParser twice
ReusePrograms == StructuralPrograms \cup CombinePrograms

\* the caller invokes runParser a second time with the same parser, input and
\* initial state; the first outcome is kept for comparison, together with the
\* visited set of the state the first invocation last failed in
RunAgain ==
    /\ ctl.op = "done" /\ ~first.set
    /\ prog \in ReusePrograms
    /\ first' = [set |-> TRUE, outcome |-> outcome, message |-> message,
                 visited |-> raised.st.visited]
    /\ ctl' = Start
    /\ outcome' = NoOutcome
    /\ onErrorCalls' = 0
    /\ message' = ""
    /\ raised' = NoRaise
    /\ recovery' = NoRecovery
    /\ finished' = NoFinish
    /\ aborted' = NoAbort
    /\ passed' = NoPass
    /\ called' = NoCall
    /\ UNCHANGED <<heap, root, prog, stack>>

----------------------------------------------------------------------------
(* Specification *)

Init ==
    /\ \E i \in Inputs : heap = i.heap /\ root = i.root
    /\ prog \in Programs
    /\ ctl = Start
    /\ stack = <<>>
    /\ outcome = NoOutcome
    /\ onErrorCalls = 0
    /\ raised = NoRaise
    /\ recovery = NoRecovery
    /\ finished = NoFinish
    /\ aborted = NoAbort
    /\ passed = NoPass
    /\ called = NoCall
    /\ first = NoFirst
    /\ message = ""

Next ==
    \/ RunParser \/ RunParserReturn \/ RunParserCatch \/ RunAgain
    \/ ParseStr \/ ParseLit \/ ParseNum \/ ParseObj
    \/ Input \/ Success \/ Fail \/ Path \/ UpdateState \/ GetState \/ Throwing
    \/ ParseField \/ ParseFieldReturn \/ ParseList \/ ParseListItem
    \/ Map \/ MapReturn \/ AndThen \/ AndThenReturn
    \/ Recover \/ RecoverReturn \/ RecoverCatch \/ Unwind
    \/ Combine \/ CombineBind \/ CombineBound \/ CombineReturn
    \/ StackOverflow

Spec == Init /\ [][Next]_vars

----------------------------------------------------------------------------
(* Properties *)

Last(s) == s[Len(s)]
Range(s) == {s[i] : i \in 1..Len(s)}
Circular == "circular reference detected"
Finished == ctl.op = "done"
Failed == outcome.kind \in {"handled", "thrown"}
HasState == ctl.op \in {"run", "ret"}

\* C1: when p fails with a validation error, p.orElse(q) / p.recover(f) runs
\* the alternative against exactly the state p.recover was entered with, even
\* when p is a combine block that had advanced its threaded state before a
\* later bind failed.
C1_AlternativeRunsOnEntryState ==
    recovery.set => recovery.ran = recovery.entry

\* an alternative was started after a block failed in a state whose auxState
\* an earlier bind had changed
C1_Witness ==
    /\ recovery.set
    /\ recovery.failed.state # recovery.entry.state
    /\ ctl.op = "run" /\ ctl.st = recovery.entry

\* C2: sibling independence.  The visited set of the current state holds only
\* values on the chain from the root to the focus, never a value met in a
\* sibling branch; "circular reference detected" is raised only for a target
\* that is on that chain; and two fields (or two items) that share one object
\* parse without error.
C2_SiblingIndependence ==
    /\ HasState => ctl.st.visited \subseteq Range(Chain(stack))
    /\ raised.err.reason = Circular =>
          GetField(raised.st.input, raised.seg[2]) \in Range(raised.chain)
    /\ (Finished /\ prog = parseSameLevel /\ heap = SameLevelHeap) =>
          (outcome.kind = "returned"
           /\ outcome.val = Rec(<<Rec(<<Str("bar")>>), Rec(<<Str("bar")>>)>>))
    /\ (Finished /\ prog = parseList(parseLeaf) /\ heap = TwinItemsHeap) =>
          outcome.kind = "returned"

\* the second sibling is being parsed: the shared leaf is the focus again,
\* reached by b after a had been parsed
C2_Witness ==
    /\ prog = parseSameLevel /\ heap = SameLevelHeap
    /\ ctl.op = "ret" /\ ctl.st.input = Ref(2) /\ ctl.st.path = <<Key("b")>>
    /\ ctl.val = Rec(<<Str("bar")>>)

\* the input of parser.spec.ts "deep": {value: <string>, next: <itself>}
SelfReferential ==
    /\ root = Ref(1)
    /\ heap[1].type = "obj"
    /\ heap[1].fields["value"][1] = "str"
    /\ heap[1].fields["next"] = Ref(1)

\* C3: parseRecursive on an object whose next is the object itself (and whose
\* value is a string) fails with "circular reference detected" at ["next"].
C3_SelfReferenceAtNext ==
    (Finished /\ prog = parseRecursive /\ SelfReferential) =>
        /\ Failed
        /\ outcome.err.reason = Circular
        /\ outcome.err.path = <<Key("next")>>

C3_Witness ==
    /\ Finished /\ prog = parseRecursive /\ SelfReferential
    /\ outcome.kind = "handled"

\* C4: the error of a refused descent carries the current path with the name
\* appended.
C4_CircularAtNewPath ==
    raised.err.reason = Circular =>
        raised.err.path = Append(raised.st.path, raised.seg)

\* C5: visited holds every value on the chain from the root input to the
\* current focus, the root included.
C5_VisitedHoldsChain ==
    HasState => Range(Chain(stack)) \subseteq ctl.st.visited

\* C6: parseList never runs itemParser on an item that is already in visited.
C6_ListChecksCycle ==
    \A i \in 1..Len(stack) :
        stack[i].kind = "parseList" => TargetOf(stack[i]) \notin stack[i].st.visited

\* self-referential parsers built from combine, parseField and parseList
RecursivePrograms == {parseRecursive, parseNested, parseTree}

\* C7: a run of a self-referential parser ends with a result or a validation
\* error; the recursion never exhausts the call stack.
C7_Terminates ==
    prog \in RecursivePrograms => raised.err.kind # "RangeError"

\* C8: path precision.  The path of the current state is the sequence of
\* the pending descents, and a shape-mismatch, missing-member,
\* literal-mismatch or fail() error carries exactly the descents that were
\* pending when it was raised.
C8_PathPrecision ==
    /\ HasState => ctl.st.path = DescentSegs(stack)
    /\ (raised.err.kind = "ParserError" /\ raised.err.reason # Circular) =>
          raised.err.path = raised.at
    /\ (Finished /\ prog = parseAListB /\ heap = AListBHeap) =>
          /\ Failed
          /\ outcome.err.reason = "property 'b' expected"
          /\ outcome.err.path = <<Key("a"), Idx(1)>>

C8_Witness ==
    /\ Finished /\ prog = parseAListB /\ heap = AListBHeap
    /\ outcome.kind = "handled"
    /\ Len(outcome.err.path) = 2

\* C9: an exception of user code that is not a ParserError is never caught by
\* recover, orElse or optional; runParser rethrows it unchanged and does not
\* call onError.
C9_ForeignExceptionPropagates ==
    raised.err.kind = "TypeError" =>
        \/ ctl.op = "throw" /\ ctl.err = raised.err
        \/ /\ Finished
           /\ outcome = [kind |-> "thrown", val |-> UNDEFINED, err |-> raised.err]
           /\ onErrorCalls = 0

\* user code threw while a recover activation was pending, and runParser
\* has rethrown it
C9_Witness ==
    /\ Finished
    /\ raised.err.kind = "TypeError" /\ raised.guarded
    /\ outcome.kind = "thrown" /\ outcome.err = UserError

\* the state a block threads after the binds whose returned states are hist
Threaded(entry, hist) == IF hist = <<>> THEN entry ELSE Last(hist)

\* C10: in a combine block the k-th bind runs against the state the (k-1)-th
\* bind returned (the entry state for k = 1), and the block returns the state
\* its last bind returned (the entry state if there was no bind).
C10_BindThreadsState ==
    /\ \A i \in 1..Len(stack) :
          stack[i].kind = "combine" =>
              /\ stack[i].st = Threaded(stack[i].entry, stack[i].hist)
              /\ \A k \in 1..Len(stack[i].ranOn) :
                    stack[i].ranOn[k] =
                        Threaded(stack[i].entry, SubSeq(stack[i].hist, 1, k - 1))
    /\ finished.set =>
          /\ finished.st = Threaded(finished.entry, finished.hist)
          /\ finished.val \in {Rec(finished.res), UNDEFINED}

\* a block of at least two binds returned a state other than its entry state
C10_Witness ==
    /\ finished.set
    /\ Len(finished.hist) >= 2
    /\ finished.st # finished.entry
    /\ ctl.op = "ret" /\ ctl.st = finished.st

\* C11: when a bind of a combine block fails with a validation error, the
\* block is left at once: the error goes on with the same reason and path,
\* the failing bind is the last bind that was run and nothing was added to
\* the results after it; a run whose parser is a combine block ends with
\* the reason and path of the error that was raised.
C11_BindFailurePropagates ==
    /\ (aborted.set /\ aborted.frame.kind = "combine" /\ recover(aborted.err)) =>
          /\ aborted.out = aborted.err
          /\ Len(aborted.frame.ranOn) = aborted.frame.pos + 1
          /\ Len(aborted.frame.res) = aborted.frame.pos
          /\ Len(aborted.frame.hist) = aborted.frame.pos
    /\ (Finished /\ prog.kind = "combine" /\ Failed /\ recover(raised.err)) =>
          /\ outcome.err.reason = raised.err.reason
          /\ outcome.err.path = raised.err.path

\* the second of four binds failed below the block's own path; the two binds
\* after it were never run
C11_Witness ==
    /\ Finished /\ outcome.kind = "handled"
    /\ aborted.set /\ aborted.frame.kind = "combine"
    /\ Len(aborted.frame.p.subs) = 4 /\ aborted.frame.pos = 1
    /\ Len(aborted.frame.ranOn) = 2
    /\ aborted.err.reason = "string expected" /\ aborted.err.path = <<Key("value")>>

\* C12: runParser returns the value the parser returned without calling
\* onError; when the parser fails with a validation error and onError is
\* given, onError is called exactly once with the reason and path of that
\* error, what it returns is the result, and nothing is thrown.
C12_RunParserOutcome ==
    /\ outcome.kind = "returned" =>
          /\ onErrorCalls = 0
          /\ prog.kind = "combine" => (finished.set /\ outcome.val = finished.val)
          /\ prog \in {parseStr, parseNum, parseObj} => outcome.val = root
    /\ outcome.kind = "handled" =>
          /\ onErrorCalls = 1
          /\ recover(raised.err)
          /\ outcome.val = Rec(<<Str(raised.err.reason), <<"path", raised.err.path>>>>)
          /\ message = ""
    /\ outcome.kind \in {"none", "thrown"} => onErrorCalls = 0

\* onError was given the error raised two descents below the root
C12_Witness ==
    /\ Finished /\ onErrorCalls = 1
    /\ prog = parseAListB /\ heap = AListBHeap
    /\ outcome.val = Rec(<<Str("property 'b' expected"), <<"path", <<Key("a"), Idx(1)>>>>>>)

\* every occurrence of the pattern replaced
ReplaceAll(chunks, pattern, replacement) ==
    [i \in 1..Len(chunks) |-> IF chunks[i] = pattern THEN replacement ELSE chunks[i]]
\* a segment as JSON Pointer (RFC 6901) writes it: "~" as "~0", then "/" as "~1"
EscapedAll(part) ==
    ReplaceAll(ReplaceAll(Chunks(PartString(part)), "~", "~0"), "/", "~1")
RECURSIVE Pointer(_)
Pointer(at) ==
    IF at = <<>> THEN ""
    ELSE "/" \o join(EscapedAll(Head(at))) \o Pointer(Tail(at))

\* C13: without onError, the message of the error runParser throws for a
\* validation error is the reason, then ` at path "`, then for each segment of
\* the error path in order "/" and the escaped segment, then `"`.
C13_DefaultMessage ==
    (outcome.kind = "thrown" /\ recover(raised.err)) =>
        message = raised.err.reason \o " at path \"" \o Pointer(raised.err.path) \o "\""

\* C14: every segment of the path of a default message is rendered with each
\* "~" as "~0" and each "/" as "~1", so that no raw "/" is left in it.
C14_SegmentsEscaped ==
    (outcome.kind = "thrown" /\ recover(raised.err)) =>
        \A i \in 1..Len(raised.err.path) :
            /\ escaped(raised.err.path[i]) = EscapedAll(raised.err.path[i])
            /\ "/" \notin Range(escaped(raised.err.path[i]))

C16_OptionalCycleReported ==
    (Finished /\ prog = nodeParser /\ SelfReferential) =>
        /\ Failed
        /\ outcome.err.reason = Circular
        /\ outcome.err.path = <<Key("next")>>

\* C17: p.andThen(f).  When p fails, the activation is left with the error of
\* p unchanged and f is not called; when p succeeds with (v, s'), f is called
\* with v and the parser it gives is run against s', the state p returned,
\* and what that parser returns is what the whole returns.
C17_AndThenSequences ==
    /\ called.set => called.on = called.from
    /\ (aborted.set /\ aborted.frame.kind = "andThen") => aborted.out = aborted.err
    /\ (prog \in AndThenPrograms /\ aborted.set /\ aborted.frame.kind = "andThen") =>
          ~called.set
    /\ (Finished /\ prog \in AndThenPrograms /\ called.set /\ outcome.kind = "returned") =>
          outcome.val \in {called.arg,
                           Rec(<<<<"state", called.from.state>>,
                                 <<"path", called.from.path>>, called.from.input>>)}
    /\ (Finished /\ prog = andThenSuccess(parseField("value", parseStr))
           /\ outcome.kind = "returned") =>
          outcome.val = GetField(root, "value")

\* p had advanced auxState below the field next before it returned, and the
\* parser f gave has shown that state
C17_Witness ==
    /\ Finished /\ prog \in AndThenPrograms /\ outcome.kind = "returned"
    /\ called.set
    /\ called.from.state # called.entry.state
    /\ called.from.path = <<Key("next")>>
    /\ outcome.val[2][1] = <<"state", called.from.state>>

\* C18: parseField(name, p) on a focus that is null or no object fails with
\* "object expected", on an object without name with "property '<name>'
\* expected" (a symbol key shown as Symbol(desc)), both at the current path
\* without name; p is run only on an object that has name.
C18_FieldFailures ==
    /\ raised.by.kind = "parseField" =>
          LET focus == raised.st.input
              name == raised.by.arg[2]
          IN /\ ~IsObject(focus) =>
                   raised.err = ParserError("object expected", raised.at)
             /\ (IsObject(focus) /\ GetField(focus, name) = ABSENT) =>
                   /\ raised.err.path = raised.at
                   /\ raised.err.reason =
                         IF name = SymField THEN "property 'Symbol(symField)' expected"
                         ELSE "property '" \o name \o "' expected"
    /\ \A i \in 1..Len(stack) :
          stack[i].kind = "parseField" =>
              /\ stack[i].st.input[1] = "ref"
              /\ GetField(stack[i].st.input, stack[i].p.arg[2]) # ABSENT

\* a field was missing two descents below the root, and the error has the
\* path of those two descents
C18_Witness ==
    /\ ctl.op = "throw" /\ raised.by.kind = "parseField"
    /\ Len(raised.at) = 2
    /\ IsObject(raised.st.input)
    /\ GetField(raised.st.input, raised.by.arg[2]) = ABSENT
    /\ ctl.err = ParserError("property 'b' expected", raised.at)

\* the index (from 0) of the first item of an array that is no string
FirstNonString(items) ==
    CHOOSE i \in 0..(Len(items) - 1) :
        /\ items[i + 1][1] # "str"
        /\ \A j \in 0..(i - 1) : items[j + 1][1] = "str"

\* C19: parseList runs itemParser on the items in increasing index order,
\* each with the path extended by its index; when all succeed the result has
\* the length of the input and holds the items' values in order; the first
\* item that fails ends the list with its error, whose path holds the index,
\* and the items after it are not parsed; a focus that is no array gives
\* "array expected" at the current path.
C19_ListInOrder ==
    /\ \A i \in 1..Len(stack) :
          stack[i].kind = "parseList" =>
              /\ stack[i].pos < Len(Items(stack[i].st.input))
              /\ Len(stack[i].res) = stack[i].pos
    /\ (HasState /\ stack # <<>> /\ Top.kind = "parseList") =>
          /\ ctl.st.path = Append(Top.st.path, Idx(Top.pos))
          /\ ctl.st.input = Items(Top.st.input)[Top.pos + 1]
    /\ (aborted.set /\ aborted.frame.kind = "parseList" /\ recover(aborted.err)) =>
          /\ aborted.out = aborted.err
          /\ Len(aborted.frame.res) = aborted.frame.pos
          /\ Len(aborted.err.path) > Len(aborted.frame.st.path)
          /\ aborted.err.path[Len(aborted.frame.st.path) + 1] = Idx(aborted.frame.pos)
    /\ (Finished /\ IsArray(root) /\ prog = parseList(input)) =>
          (outcome.kind = "returned" /\ outcome.val = Arr(Items(root)))
    /\ (Finished /\ IsArray(root) /\ prog = parseList(path)) =>
          /\ outcome.kind = "returned"
          /\ outcome.val = Arr([i \in 1..Len(Items(root)) |-> <<"path", <<Idx(i - 1)>>>>])
    /\ (Finished /\ IsArray(root) /\ prog = parseList(parseStr)) =>
          IF \A i \in 1..Len(Items(root)) : Items(root)[i][1] = "str"
          THEN outcome.kind = "returned" /\ outcome.val = Arr(Items(root))
          ELSE /\ Failed
               /\ outcome.err.reason = "string expected"
               /\ outcome.err.path = <<Idx(FirstNonString(Items(root)))>>
    /\ raised.by.kind = "parseList" =>
          /\ ~IsArray(raised.st.input)
          /\ raised.err = ParserError("array expected", raised.at)

\* the first of two items failed; the second, a string, was never parsed
C19_Witness ==
    /\ Finished /\ prog = parseList(parseStr) /\ outcome.kind = "handled"
    /\ aborted.set /\ aborted.frame.kind = "parseList"
    /\ aborted.frame.pos = 0 /\ aborted.frame.res = <<>>
    /\ Len(Items(root)) = 2 /\ Items(root)[2][1] = "str"
    /\ outcome.err.path = <<Idx(0)>>

\* C20: parseLit(v) on a focus other than v fails at the current path with
\* the reason `expected value "<v>"`, the literal in double quotes.
C20_LiteralQuoted ==
    raised.by.kind = "parseLit" =>
        /\ raised.err.path = raised.at
        /\ raised.err.reason = "expected value \"" \o String(raised.by.arg) \o "\""

\* the blocks that log a failure of their first bind and then read the log
LogPrograms ==
    {q \in Programs :
        /\ q.kind = "combine" /\ Len(q.subs) = 2
        /\ q.subs[1].kind = "recover" /\ q.subs[1].arg[2] = "log"
        /\ q.subs[2] = getState}

\* C21: an auxState update made by a recovery branch is threaded forward.
\* When the first bind of a block fails and its recover function logs the
\* reason and path it was given, the bind yields the alternative's value
\* (undefined) and a getState later in the block sees the entry auxState with
\* that one entry added; for input 42 the run returns undefined and
\* ["string expected at: []"].
C21_RecoveryUpdatesThreaded ==
    /\ (Finished /\ prog \in LogPrograms /\ outcome.kind = "returned" /\ recovery.set) =>
          /\ Len(recovery.err.path) <= 1
          /\ finished.res[1] = UNDEFINED
          /\ finished.res[2] =
                <<"state", Append(finished.entry.state,
                                  recovery.err.reason \o " at: ["
                                  \o (IF recovery.err.path = <<>> THEN ""
                                      ELSE recovery.err.path[1][2])
                                  \o "]")>>
          /\ outcome.val = Rec(finished.res)
    /\ (Finished /\ prog = parserStrOrLog /\ root = Num(42)) =>
          /\ outcome.kind = "returned"
          /\ outcome.val = Rec(<<UNDEFINED, <<"state", <<"string expected at: []">>>>>>)
    /\ (Finished /\ root = Ref(1) /\ outcome.kind = "returned"
           /\ prog = parseField("next", combine(<<recoverLog(parseField("next", parseNum)),
                                                  getState>>, "collect"))
           /\ recovery.set /\ Len(recovery.err.path) = 2) =>
          outcome.val =
              Rec(<<UNDEFINED,
                    <<"state", <<recovery.err.reason \o " at: [next, next]">>>>>>)

\* parserStrOrLog on 42: the failure was logged and the log read back
C21_Witness ==
    /\ Finished /\ prog = parserStrOrLog /\ root = Num(42)
    /\ recovery.set /\ recovery.err = ParserError("string expected", <<>>)
    /\ outcome.val[2][2] = <<"state", <<"string expected at: []">>>>

\* what a run gave, whichever way runParser reports it
ParseResult(o) ==
    [ok |-> o.kind = "returned", val |-> IF o.kind = "returned" THEN o.val ELSE UNDEFINED,
     reason |-> o.err.reason, at |-> o.err.path,
     foreign |-> o.err.kind \notin {"none", "ParserError", "Error"}]

\* two invocations of runParser gave the same
SameAsFirst ==
    (first.set /\ Finished) =>
        /\ ParseResult(outcome) = ParseResult(first.outcome)
        /\ outcome.kind = first.outcome.kind =>
              (outcome = first.outcome /\ message = first.message)

RECURSIVE Extracts(_)
Extracts(p) ==
    CASE p.kind \in {"parseStr", "parseNum", "parseObj", "parseLit", "input", "lazy"} -> TRUE
      [] p.kind \in {"parseField", "parseList"} -> Extracts(p.subs[1])
      [] p.kind = "combine" ->
            p.arg[2] = "collect" /\ \A k \in 1..Len(p.subs) : Extracts(p.subs[k])
      [] OTHER -> FALSE

\* the fields of the value v match an extracting parser: every field it reads
\* is an own key of its object and every leaf has the type the parser asks for
RECURSIVE Matches(_, _)
Matches(p, v) ==
    CASE p.kind = "lazy" -> Matches(Deref(p), v)
      [] p.kind = "parseField" ->
            /\ v[1] = "ref"
            /\ heap[v[2]].fields[p.arg[2]] # ABSENT
            /\ Matches(p.subs[1], heap[v[2]].fields[p.arg[2]])
      [] p.kind = "parseList" ->
            /\ v[1] = "ref" /\ heap[v[2]].type = "arr"
            /\ \A i \in 1..Len(heap[v[2]].items) : Matches(p.subs[1], heap[v[2]].items[i])
      [] p.kind = "combine" -> \A k \in 1..Len(p.subs) : Matches(p.subs[k], v)
      [] p.kind = "parseStr" -> v[1] = "str"
      [] p.kind = "parseNum" -> v[1] = "num"
      [] p.kind = "parseObj" -> v[1] = "ref"
      [] p.kind = "parseLit" -> v = p.arg
      [] OTHER -> TRUE

\* the part of the value v an extracting parser reads, in the parser's shape
RECURSIVE Projection(_, _)
Projection(p, v) ==
    CASE p.kind = "lazy" -> Projection(Deref(p), v)
      [] p.kind = "parseField" -> Projection(p.subs[1], heap[v[2]].fields[p.arg[2]])
      [] p.kind = "parseList" ->
            Arr([i \in 1..Len(heap[v[2]].items) |-> Projection(p.subs[1], heap[v[2]].items[i])])
      [] p.kind = "combine" -> Rec([k \in 1..Len(p.subs) |-> Projection(p.subs[k], v)])
      [] OTHER -> v

C24_OwnKeyOnly ==
    /\ \A i \in 1..Len(stack) :
          stack[i].kind = "parseField" => HasOwn(stack[i].st.input, stack[i].p.arg[2])
    /\ (Finished /\ prog = parseField("toString", input) /\ IsObject(root)) =>
          /\ outcome.kind = "handled"
          /\ outcome.err.reason = "property 'toString' expected"

\* C25: updateState(fn), run on a state, yields fn(auxState) as its value
\* and that state with fn(auxState) as auxState, focus, path and visited as
\* they were; getState yields the auxState and the state it was run on;
\* neither fails nor touches a pending activation.
C25_StateParsersFrame ==
    [][/\ (ctl.op = "run" /\ ctl.p.kind = "updateState" /\ Len(stack) < MaxDepth) =>
             /\ ctl'.op = "ret"
             /\ ctl'.val = <<"state", ApplyUpdater(ctl.p.arg, ctl.st.state)>>
             /\ ctl'.st = [ctl.st EXCEPT !.state = ApplyUpdater(ctl.p.arg, ctl.st.state)]
             /\ stack' = stack
       /\ (ctl.op = "run" /\ ctl.p.kind = "getState" /\ Len(stack) < MaxDepth) =>
             /\ ctl'.op = "ret"
             /\ ctl'.val = <<"state", ctl.st.state>>
             /\ ctl'.st = ctl.st
             /\ stack' = stack]_vars

\* updateState has run below a descent, on a state with a path and a visited
\* set, and getState has shown the entry it added
C25_Witness ==
    /\ Finished /\ outcome.kind = "returned"
    /\ prog = combine(<<parseField("next", combine(<<mark("x"), getState>>, "collect")),
                        getState, mark("y")>>, "collect")
    /\ outcome.val[2][1] = Rec(<<<<"state", <<"x">>>>, <<"state", <<"x">>>>>>)
    /\ outcome.val[2][3] = <<"state", <<"y">>>>

\* C26: combine is re-entrant.  While something runs inside a pending block,
\* also another invocation of the same parser value, the state that block
\* threads does not change; it changes only when one of its own binds
\* returns, and then to the state that bind returned.
C26_CombineReentrant ==
    [][\A i \in 1..Len(stack) :
          (stack[i].kind = "combine" /\ i <= Len(stack')) =>
              \/ stack'[i].st = stack[i].st
              \/ /\ i = Len(stack) /\ ctl.op = "ret"
                 /\ stack'[i].st = ctl.st]_vars

\* an invocation of a block runs inside another invocation of the same block,
\* and has threaded a state of its own
C26_Witness ==
    \E i, j \in 1..Len(stack) :
        /\ i < j
        /\ stack[i].kind = "combine" /\ stack[j].kind = "combine"
        /\ stack[i].p = stack[j].p
        /\ stack[i].hist # <<>> /\ stack[j].hist # <<>>
        /\ stack[j].st # stack[i].st

\* the block that updates the auxState inside a field and reads it after the
\* field, and the list whose item parser updates and reads it
markedField ==
    combine(<<parseField("next", combine(<<mark("x"), getState>>, "collect")),
              getState, mark("y")>>, "collect")
markedItems == parseList(combine(<<mark("x"), getState>>, "collect"))

\* C27: parseField and parseList isolate the state of the inner parser.  The
\* field parser and every item parser start with the auxState the field or
\* list was entered with; when the inner parser returns, parseField returns
\* its value with exactly the entry state, and parseList runs the next item
\* from the entry auxState or returns exactly the entry state.  So a getState
\* after a field whose parser logged "x" shows no "x", and every item of a
\* list sees only its own "x".
C27_DescentIsolatesState ==
    [][/\ (ctl.op = "run" /\ ctl.p.kind \in {"parseField", "parseList"}
             /\ ctl'.op = "run") =>
             /\ ctl'.st.state = ctl.st.state
             /\ stack'[Len(stack')].st = ctl.st
       /\ (ctl.op = "ret" /\ stack # <<>> /\ Top.kind = "parseField") =>
             (ctl'.op = "ret" /\ ctl'.st = Top.st /\ ctl'.val = ctl.val)
       /\ (ctl.op = "ret" /\ stack # <<>> /\ Top.kind = "parseList") =>
             \/ /\ ctl'.op = "run" /\ Len(stack') = Len(stack)
                /\ ctl'.st.state = Top.st.state
                /\ stack'[Len(stack')].st = Top.st
             \/ ctl'.op = "ret" /\ ctl'.st = Top.st
       /\ (Finished' /\ prog = markedField /\ outcome'.kind = "returned") =>
             /\ outcome'.val[2][1] = Rec(<<<<"state", <<"x">>>>, <<"state", <<"x">>>>>>)
             /\ outcome'.val[2][2] = <<"state", <<>>>>
       /\ (Finished' /\ prog = markedItems /\ outcome'.kind = "returned") =>
             \A i \in 1..Len(outcome'.val[2]) :
                 outcome'.val[2][i] = Rec(<<<<"state", <<"x">>>>, <<"state", <<"x">>>>>>)]_vars

\* the field's parser logged "x" and the getState after the field saw nothing
C27_Witness ==
    /\ Finished /\ prog = markedField /\ outcome.kind = "returned"
    /\ outcome.val[2][1][2][2] = <<"state", <<"x">>>>
    /\ outcome.val[2][2] = <<"state", <<>>>>

\* focus, path and visited of a state
Position(st) == <<st.input, st.path, st.visited>>

\* the position of the state the parser now running or returning was entered
\* with: that of the run's initial state, of the state a pending parseField or
\* parseList descended to, or of the state the pending combinator was entered
\* with
EntryPosition ==
    IF stack = <<>> THEN <<root, <<>>, {}>>
    ELSE IF IsDescent(Top)
    THEN <<TargetOf(Top), Append(Top.st.path, SegOf(Top)), Top.st.visited \cup {TargetOf(Top)}>>
    ELSE Position(Top.entry)

\* C28: a parser made of the library's parsers and combinators returns a
\* state with the focus, path and visited of the state it was entered with:
\* whatever is run or returns under a pending activation has the position
\* that activation gave it (also the alternative of a recovered failure and
\* the parser an andThen callback gave), and a block that returned has the
\* position it was entered with.
C28_PositionPreserved ==
    /\ HasState => Position(ctl.st) = EntryPosition
    /\ finished.set => Position(finished.st) = Position(finished.entry)

\* a list of two items below a field has returned, at the path of that field
C28_Witness ==
    /\ ctl.op = "ret" /\ stack # <<>>
    /\ Top.kind = "parseField"
    /\ ctl.val[1] = "array" /\ Len(ctl.val[2]) = 2
    /\ Position(ctl.st) = EntryPosition
    /\ ctl.st.path # <<>>

\* C29: recovery is attempted once.  In a run of p.orElse(q) the recover
\* function is invoked at most once; when p has failed and the run fails,
\* the error is the one q raised outside the handler, with q's reason and
\* path, and not the error of p; parseStr.orElse(parseNum) on a value that is
\* neither fails with "number expected", parseStr.orElse(fail("alt")) with
\* "alt".
C29_RecoveryOnce ==
    prog \in RetryPrograms =>
        /\ recovery.n <= 1
        /\ (Finished /\ recovery.set /\ Failed) =>
              /\ ParseResult(outcome).reason = raised.err.reason
              /\ ParseResult(outcome).at = raised.err.path
              /\ ~ParseResult(outcome).foreign
              /\ LET q == IF prog.kind = "recover" THEN prog.subs[2]
                          ELSE prog.subs[1].subs[2]
                 IN raised.by = q \/ (q.subs # <<>> /\ raised.by = q.subs[1])
              /\ ~raised.guarded
              /\ Len(raised.at) >= Len(recovery.entry.path)
              /\ SubSeq(raised.at, 1, Len(recovery.entry.path)) = recovery.entry.path
        /\ (Finished /\ prog = orElse(parseStr, parseNum) /\ root[1] \notin {"str", "num"}) =>
              /\ Failed
              /\ ParseResult(outcome).reason = "number expected"
              /\ ParseResult(outcome).at = <<>>
        /\ (Finished /\ prog = orElse(parseStr, fail("alt")) /\ recovery.set) =>
              /\ Failed
              /\ ParseResult(outcome).reason = "alt"

\* parseStr.orElse(parseNum) has failed on an object: both parsers failed and
\* the error left is that of parseNum
C29_Witness ==
    /\ Finished /\ prog = orElse(parseStr, parseNum) /\ root = Ref(1)
    /\ recovery.n = 1 /\ recovery.err.reason = "string expected"
    /\ outcome.kind = "handled" /\ outcome.err.reason = "number expected"

====
